---- MODULE Spec2Model ----
(***************************************************************************)
(* A model of yamled: path-addressed reading, writing and deleting on a    *)
(* tree of yaml.Node values, wrapped by `node` (node.go).                  *)
(*                                                                         *)
(* yaml.Node values live in a heap: a node's identity is its index in     *)
(* `heap`, a *yaml.Node is such an index (0 is nil), and a node's Content *)
(* is the sequence of its children's indices.  Go's 0-based indices are    *)
(* kept in the operators; At(c, i) reads Go's c[i].                        *)
(* The fields Anchor, Alias, Line and Column of yaml.Node are left out:   *)
(* no operation of the package reads them.                                 *)
(*                                                                         *)
(* Spec makes one call on a node wrapper or on the document wrapper of a  *)
(* loaded document.  PathSpec makes calls on Path values, which are Go    *)
(* slices: windows on backing arrays that the values may share.           *)
(***************************************************************************)
EXTENDS Integers, Sequences, FiniteSets, TLC

VARIABLES
    heap,   \* Seq of yaml.Node records; heap[1] is the document node
    pre,    \* the heap as it was when the last call started
    last,   \* the last call: operation, receiver, arguments and results
    arrays, \* the backing arrays of the Path values: Seq of Seq of steps
    paths,  \* the Path values made so far: slices of the backing arrays
    pcall   \* the last call on a Path: operation, receiver, arguments, results

pathVars == <<arrays, paths, pcall>>
vars == <<heap, pre, last, arrays, paths, pcall>>

-----------------------------------------------------------------------------
(* Bounds of the model *)

\* the largest integer step the calls use (the smallest is -1)
MaxIndex == 1
\* the longest list of steps the calls use
MaxPathLen == 2
\* the most Path values a behaviour makes
MaxPaths == 3
\* the most calls a sequence of calls makes
MaxCalls == 2

-----------------------------------------------------------------------------
(* Steps and paths *)

StrStep(s) == [t |-> "string", s |-> s, i |-> 0]
IntStep(i) == [t |-> "int", s |-> "", i |-> i]
\* a step of another Go type; %T prints it as "bool"
BoolStep == [t |-> "bool", s |-> "", i |-> 0]
\* the nil Step: what Start, End and Consume give on an empty path
NilStep == [t |-> "<nil>", s |-> "", i |-> 0]

Keys == {"a", "b"}
Steps == {StrStep(k) : k \in Keys} \cup {IntStep(i) : i \in -1..MaxIndex} \cup {BoolStep}

RECURSIVE SeqsOf(_, _)
SeqsOf(S, n) ==
    IF n = 0 THEN {<<>>}
    ELSE {<<x>> \o p : x \in S, p \in SeqsOf(S, n - 1)}

\* every list of steps of length 0..MaxPathLen
Paths == UNION {SeqsOf(Steps, n) : n \in 0..MaxPathLen}

Min(S) == CHOOSE x \in S : \A y \in S : x <= y
At(c, i) == c[i + 1]

-----------------------------------------------------------------------------
(* yaml.Node *)

NodeRec(kind, style, tag, value, content, hc, lc, fc) ==
    [Kind |-> kind, Style |-> style, Tag |-> tag, Value |-> value,
     Content |-> content,
     HeadComment |-> hc, LineComment |-> lc, FootComment |-> fc]

nullNode == NodeRec("Scalar", "", "!!null", "null", <<>>, "", "", "")
mappingNode == NodeRec("Mapping", "", "!!map", "", <<>>, "", "", "")
sequenceNode == NodeRec("Sequence", "", "!!seq", "", <<>>, "", "", "")
stringNode(value) == NodeRec("Scalar", "", "!!str", value, <<>>, "", "", "")

\* A parsed tree as a term: Content holds the children's terms.  Alloc puts
\* a term into the heap, the node first and its children after it, and
\* gives the node's index: what the yaml decoder does when it builds nodes.
RECURSIVE Alloc(_, _), AllocAll(_, _)
Alloc(h, t) ==
    LET id == Len(h) + 1
        h1 == Append(h, [t EXCEPT !.Content = <<>>])
        r == AllocAll(h1, t.Content)
    IN [heap |-> [r.heap EXCEPT ![id].Content = r.ids], id |-> id]
AllocAll(h, ts) ==
    IF ts = <<>> THEN [heap |-> h, ids |-> <<>>]
    ELSE LET a == Alloc(h, Head(ts))
             b == AllocAll(a.heap, Tail(ts))
         IN [heap |-> b.heap, ids |-> <<a.id>> \o b.ids]

\* the tree below node id, as a term
RECURSIVE TermOf(_, _)
TermOf(h, id) ==
    [h[id] EXCEPT !.Content = [j \in 1..Len(h[id].Content) |-> TermOf(h, h[id].Content[j])]]

-----------------------------------------------------------------------------
(* Go values and createNode *)

Val(t, s, n, keys, elems) == [t |-> t, s |-> s, n |-> n, keys |-> keys, elems |-> elems]
VNil == Val("nil", "", 0, <<>>, <<>>)
VStr(s) == Val("string", s, 0, <<>>, <<>>)
VInt(n) == Val("int", "", n, <<>>, <<>>)
VSlice(elems) == Val("slice", "", 0, <<>>, elems)
\* a map[string]interface{}: keys[j] maps to elems[j]; kept with sorted keys
VMap(keys, elems) == Val("map", "", 0, keys, elems)
\* a value the encoder cannot marshal (a func, a channel)
VFunc == Val("func", "", 0, <<>>, <<>>)
\* what decoding gives when the node cannot be decoded
VUndecodable == Val("undecodable", "", 0, <<>>, <<>>)

\* the decimal text of the integers the model writes
IntText == (7 :> "7") @@ (12 :> "12")
\* the order of strings, as far as the model's keys go
KeyOrder == <<"a", "b", "c">>

Range(f) == {f[j] : j \in DOMAIN f}
IndexOf(f, x) == CHOOSE j \in DOMAIN f : f[j] = x
SortedKeys(S) == SelectSeq(KeyOrder, LAMBDA k : k \in S)
Interleave(ks, vs) == [j \in 1..(2 * Len(ks)) |-> IF j % 2 = 1 THEN ks[(j + 1) \div 2] ELSE vs[j \div 2]]

\* the node tree the yaml encoder and decoder make of a Go value
RECURSIVE Encode(_)
Encode(v) ==
    CASE v.t = "nil" -> nullNode
      [] v.t = "string" -> stringNode(v.s)
      [] v.t = "int" -> NodeRec("Scalar", "", "!!int", IntText[v.n], <<>>, "", "", "")
      [] v.t = "slice" ->
            [sequenceNode EXCEPT !.Content = [j \in 1..Len(v.elems) |-> Encode(v.elems[j])]]
      [] v.t = "map" ->
            LET ks == SortedKeys(Range(v.keys))
            IN [mappingNode EXCEPT !.Content =
                    Interleave([j \in 1..Len(ks) |-> stringNode(ks[j])],
                               [j \in 1..Len(ks) |-> Encode(v.elems[IndexOf(v.keys, ks[j])])])]

\* the Go value Node.To decodes from the tree below node id
RECURSIVE Decode(_, _)
Decode(h, id) ==
    LET n == h[id]
        c == n.Content
    IN CASE n.Kind = "Scalar" /\ n.Tag = "!!null" -> VNil
         [] n.Kind = "Scalar" /\ n.Tag = "!!str" -> VStr(n.Value)
         [] n.Kind = "Scalar" /\ n.Tag = "!!int" /\ n.Value \in Range(IntText) ->
                VInt(CHOOSE k \in DOMAIN IntText : IntText[k] = n.Value)
         [] n.Kind = "Sequence" -> VSlice([j \in 1..Len(c) |-> Decode(h, c[j])])
         [] n.Kind = "Mapping" ->
                LET kidx == {j \in 1..Len(c) : j % 2 = 1}
                    ks == SortedKeys({h[c[j]].Value : j \in kidx})
                IN IF \/ Len(c) % 2 # 0
                      \/ \E j \in kidx : h[c[j]].Kind # "Scalar"
                      \/ \E j, k \in kidx : j # k /\ h[c[j]].Value = h[c[k]].Value
                   THEN VUndecodable
                   ELSE VMap(ks, [j \in 1..Len(ks) |->
                            Decode(h, c[1 + (CHOOSE k \in kidx : h[c[k]].Value = ks[j])])])
         [] OTHER -> VUndecodable

NoErr == [msg |-> "", arg |-> ""]
Err(msg, arg) == [msg |-> msg, arg |-> arg]

\* createNode: encode the value, decode the text into fresh nodes and take
\* the document's content node
createNode(h, v) ==
    IF v.t = "func"
    THEN [heap |-> h, id |-> 0, err |-> Err("cannot marshal type", v.t)]
    ELSE LET a == Alloc(h, Encode(v))
         IN [heap |-> a.heap, id |-> a.id, err |-> NoErr]

\* an empty mapping for an integer step too
createFittingEmptyNodeMapping(s) ==
    CASE s.t = "<nil>" -> [node |-> nullNode, err |-> NoErr]
      [] s.t \in {"string", "int"} -> [node |-> mappingNode, err |-> NoErr]
      [] OTHER -> [node |-> nullNode, err |-> Err("cannot handle %T steps when traversing paths", s.t)]

\* createFittingEmptyNode: an empty node for the step to descend into
createFittingEmptyNode(s) ==
    CASE s.t = "<nil>" -> [node |-> nullNode, err |-> NoErr]
      [] s.t = "string" -> [node |-> mappingNode, err |-> NoErr]
      [] s.t = "int" -> [node |-> sequenceNode, err |-> NoErr]
      [] OTHER -> [node |-> nullNode, err |-> Err("cannot handle %T steps when traversing paths", s.t)]

isNullNode(h, id) == h[id].Kind = "Scalar" /\ h[id].Tag = "!!null"

\* nodes are compatible when kind and tag are the same
compatibleKindsSameTag(h, a, b) == h[a].Kind = h[b].Kind /\ h[a].Tag = h[b].Tag

\* the kind check left out
compatibleKindsAlways(h, a, b) == TRUE

\* the exemption of null left out
compatibleKindsStrict(h, a, b) == h[a].Kind = h[b].Kind

compatibleKinds(h, a, b) == h[a].Kind = h[b].Kind \/ isNullNode(h, a) \/ isNullNode(h, b)

\* the wrapper is pointed at the new node: the node in the tree stays as it is
deepCopyNodeRebind(h, dst, src) == h

\* deepCopyNode: every field of src (a yaml.Node passed by value) is
\* assigned to the node dst, which keeps its identity
deepCopyNode(h, dst, src) == [h EXCEPT ![dst] = src]

-----------------------------------------------------------------------------
(* Path *)

Start(p) == IF Len(p) = 0 THEN NilStep ELSE p[1]

\* fmt.Sprintf("%d", i) for the negative integers -9..-1
Digits == <<"1", "2", "3", "4", "5", "6", "7", "8", "9">>
Sprintd(i) == "-" \o Digits[0 - i]

\* the message for the first malformed step only
RECURSIVE ValidateErrorsFirst(_)
ValidateErrorsFirst(p) ==
    IF p = <<>> THEN <<>>
    ELSE LET s == Head(p)
         IN CASE s.t = "string" -> ValidateErrorsFirst(Tail(p))
              [] s.t = "int" -> IF s.i < 0 THEN <<Err("%d is invalid, steps must be >= 0", Sprintd(s.i))>>
                                ELSE ValidateErrorsFirst(Tail(p))
              [] OTHER -> <<Err("cannot handle %T steps", s.t)>>

\* Validate: the messages for the malformed steps, in path order
RECURSIVE ValidateErrors(_)
ValidateErrors(p) ==
    IF p = <<>> THEN <<>>
    ELSE LET s == Head(p)
             e == CASE s.t = "string" -> <<>>
                    [] s.t = "int" -> IF s.i < 0 THEN <<Err("%d is invalid, steps must be >= 0", Sprintd(s.i))>> ELSE <<>>
                    [] OTHER -> <<Err("cannot handle %T steps", s.t)>>
         IN e \o ValidateErrors(Tail(p))

\* the text fmt.Sprintf makes of a message of Validate
Sprintf(e) ==
    IF e.msg = "%d is invalid, steps must be >= 0"
    THEN e.arg \o " is invalid, steps must be >= 0"
    ELSE "cannot handle " \o e.arg \o " steps"

\* strings.Join(errors, sep) of the messages' texts
RECURSIVE Join(_, _)
Join(errors, sep) ==
    IF Len(errors) = 0 THEN ""
    ELSE IF Len(errors) = 1 THEN Sprintf(errors[1])
    ELSE Sprintf(errors[1]) \o sep \o Join(Tail(errors), sep)

\* only the first step is looked at
ValidateFirstStep(p) ==
    IF Len(p) > 0 /\ Len(ValidateErrors(<<Head(p)>>)) > 0
    THEN Err("invalid path: %s", "") ELSE NoErr

Validate(p) ==
    IF Len(ValidateErrors(p)) > 0
    THEN Err("invalid path: %s", Join(ValidateErrors(p), "; "))
    ELSE NoErr

-----------------------------------------------------------------------------
(* Path as a Go slice: a window on a backing array *)

\* a slice: the backing array's index in `arrays` (0: none), the offset of
\* its first element in it and its length
Slice(arr, off, len) == [arr |-> arr, off |-> off, len |-> len]
\* the nil Path
NilPath == Slice(0, 0, 0)
Cap(a, p) == IF p.arr = 0 THEN 0 ELSE Len(a[p.arr]) - p.off
\* the steps of p, read from its backing array
StepsOf(a, p) == [k \in 1..p.len |-> a[p.arr][p.off + k]]
\* a step that holds a Path value: the i-th of `paths`; %T prints yamled.Path
PathStep(i) == [t |-> "yamled.Path", s |-> "", i |-> i]

Max(x, y) == IF x >= y THEN x ELSE y
\* the capacity append gives the array it allocates: the language leaves
\* it open beyond the length needed; the gc runtime doubles small slices
GrowCaps(oldcap, needed) == {needed, Max(needed, 2 * oldcap)}
\* a new backing array of the given capacity that starts with steps
NewArray(steps, newcap) ==
    [k \in 1..newcap |-> IF k <= Len(steps) THEN steps[k] ELSE NilStep]

\* Go's append(p, s...): in place when the capacity of p allows, else into
\* a new array of capacity newcap
GoAppend(a, p, s, newcap) ==
    IF Len(s) = 0 THEN [arrays |-> a, path |-> p]
    ELSE IF p.len + Len(s) <= Cap(a, p)
    THEN [arrays |-> [a EXCEPT ![p.arr] =
                        [k \in 1..Len(@) |->
                            IF k > p.off + p.len /\ k <= p.off + p.len + Len(s)
                            THEN s[k - p.off - p.len] ELSE @[k]]],
          path |-> [p EXCEPT !.len = p.len + Len(s)]]
    ELSE [arrays |-> Append(a, NewArray(StepsOf(a, p) \o s, newcap)),
          path |-> Slice(Len(a) + 1, 0, p.len + Len(s))]

\* Append: append(p, s...)
PathAppend(a, p, s, newcap) == GoAppend(a, p, s, newcap)

\* Prepend: append(s, p).  s is the slice of the call's arguments, exactly
\* as long as they are many, and p, the i-th Path value, is appended to it
\* as one element: a Step that holds the Path
PathPrepend(a, i, s, newcap) ==
    LET a1 == IF Len(s) = 0 THEN a ELSE Append(a, s)
        args == IF Len(s) = 0 THEN NilPath ELSE Slice(Len(a) + 1, 0, Len(s))
    IN GoAppend(a1, args, <<PathStep(i)>>, newcap)

\* the parent that drops the first step instead of the last
PathParentTail(p) == IF p.len < 1 THEN NilPath ELSE Slice(p.arr, p.off + 1, p.len - 1)

\* Parent: p[0 : len(p)-1]
PathParent(p) == IF p.len < 1 THEN NilPath ELSE [p EXCEPT !.len = p.len - 1]

PathStart(a, p) == IF p.len = 0 THEN NilStep ELSE a[p.arr][p.off + 1]
PathEnd(a, p) == IF p.len = 0 THEN NilStep ELSE a[p.arr][p.off + p.len]

\* Consume: p[0] and p[1:]
PathConsume(a, p) ==
    IF p.len = 0 THEN [step |-> NilStep, path |-> NilPath]
    ELSE [step |-> a[p.arr][p.off + 1], path |-> Slice(p.arr, p.off + 1, p.len - 1)]

NoPathCall ==
    [op |-> "none", recv |-> 0, args |-> <<>>, step |-> NilStep, path |-> 0,
     before |-> <<>>]

-----------------------------------------------------------------------------
(* node: reading *)

\* no key is ever found
FindKeyNone(h, n, s) == -1

\* the scan takes key nodes of any kind: an alias key matches by its name
FindKeyAnyKind(h, n, s) ==
    LET c == h[n].Content
        hits == {i \in 0..(Len(c) - 1) : i % 2 = 0 /\ h[At(c, i)].Value = s}
    IN IF hits = {} THEN -1 ELSE Min(hits)

\* the scan keeps going after a match: the last matching key wins
FindKeyLast(h, n, s) ==
    LET c == h[n].Content
        hits == {i \in 0..(Len(c) - 1) :
                    i % 2 = 0 /\ h[At(c, i)].Kind = "Scalar" /\ h[At(c, i)].Value = s}
    IN IF hits = {} THEN -1 ELSE CHOOSE x \in hits : \A y \in hits : x >= y

\* The scan over a mapping's key nodes: the Go index of the first key node,
\* at an even index, that is a scalar whose Value is s; -1 when there is none
FindKey(h, n, s) ==
    LET c == h[n].Content
        hits == {i \in 0..(Len(c) - 1) :
                    i % 2 = 0 /\ h[At(c, i)].Kind = "Scalar" /\ h[At(c, i)].Value = s}
    IN IF hits = {} THEN -1 ELSE Min(hits)

GetRes(node, found, incompatibleKind, panic) ==
    [node |-> node, found |-> found, incompatibleKind |-> incompatibleKind, panic |-> panic]

\* get with exactly one step
getStep(h, n, step) ==
    LET c == h[n].Content
    IN CASE step.t = "string" ->
              IF h[n].Kind # "Mapping" THEN GetRes(0, FALSE, TRUE, FALSE)
              ELSE LET i == FindKey(h, n, step.s)
                   IN IF i = -1 THEN GetRes(0, FALSE, FALSE, FALSE)
                      ELSE IF i + 1 >= Len(c) THEN GetRes(0, FALSE, FALSE, FALSE)
                      ELSE GetRes(At(c, i + 1), TRUE, FALSE, FALSE)
         [] step.t = "int" ->
              IF h[n].Kind # "Sequence" THEN GetRes(0, FALSE, TRUE, FALSE)
              ELSE IF step.i >= Len(c) THEN GetRes(0, FALSE, FALSE, FALSE)
              \* Content[step] with a negative step: index out of range
              ELSE IF step.i < 0 THEN GetRes(0, FALSE, FALSE, TRUE)
              ELSE GetRes(At(c, step.i), TRUE, FALSE, FALSE)
         [] OTHER -> GetRes(0, FALSE, FALSE, FALSE)

\* the steps after the first are asked of the receiver again, not of the
\* child the first step gave
RECURSIVE getSameReceiver(_, _, _)
getSameReceiver(h, n, steps) ==
    IF Len(steps) = 0 THEN GetRes(0, FALSE, FALSE, FALSE)
    ELSE IF Len(steps) > 1
    THEN LET r == getSameReceiver(h, n, <<Head(steps)>>)
         IN IF ~r.found THEN r ELSE getSameReceiver(h, n, Tail(steps))
    ELSE getStep(h, n, steps[1])

RECURSIVE get(_, _, _)
get(h, n, steps) ==
    IF Len(steps) = 0 THEN GetRes(0, FALSE, FALSE, FALSE)
    ELSE IF Len(steps) > 1
    THEN LET r == get(h, n, <<Head(steps)>>)
         IN IF ~r.found THEN r ELSE get(h, r.node, Tail(steps))
    ELSE getStep(h, n, steps[1])

\* GetKey: the key node of the entry the steps lead to
GetKey(h, n, steps) ==
    IF Len(steps) = 0 THEN GetRes(0, FALSE, FALSE, FALSE)
    ELSE LET parent == IF Len(steps) > 1
                       THEN get(h, n, SubSeq(steps, 1, Len(steps) - 1))
                       ELSE GetRes(n, TRUE, FALSE, FALSE)
             step == steps[Len(steps)]
             \* kNode.Value == step: only a string step equals a key's Value
             i == IF step.t = "string" THEN FindKey(h, parent.node, step.s) ELSE -1
         IN IF parent.panic THEN GetRes(0, FALSE, FALSE, TRUE)
            ELSE IF ~parent.found THEN GetRes(0, FALSE, FALSE, FALSE)
            ELSE IF h[parent.node].Kind # "Mapping" THEN GetRes(0, FALSE, FALSE, FALSE)
            ELSE IF i = -1 THEN GetRes(0, FALSE, FALSE, FALSE)
            ELSE GetRes(At(h[parent.node].Content, i), TRUE, FALSE, FALSE)

\* nodeGet: the traversal that returns a TraversalError.  The error's Path
\* is a Path value: it is made in a and ps, the backing arrays and the Path
\* values so far, and is the last of the values when an error is returned
RECURSIVE nodeGet(_, _, _, _, _)
nodeGet(h, n, path, a, ps) ==
    IF Len(path) = 0
    THEN [node |-> n, err |-> NoErr, arrays |-> a, paths |-> ps, panic |-> FALSE]
    ELSE
      LET currentStep == Head(path)
          remainingPath == Tail(path)
          c == h[n].Content
          \* makeErr of another error: Path{currentStep}
          Fresh(err) ==
              [node |-> 0, err |-> err,
               arrays |-> Append(a, <<currentStep>>),
               paths |-> Append(ps, Slice(Len(a) + 1, 0, 1)), panic |-> FALSE]
          \* makeErr of a TraversalError: terr.Path.Prepend(currentStep)
          Wrapped(r) ==
              LET pp == PathPrepend(r.arrays, Len(r.paths), <<currentStep>>,
                                    CHOOSE newcap \in GrowCaps(1, 2) : TRUE)
              IN [node |-> 0, err |-> r.err, arrays |-> pp.arrays,
                  paths |-> Append(r.paths, pp.path), panic |-> FALSE]
          Descend(child) ==
              LET r == nodeGet(h, child, remainingPath, a, ps)
              IN IF ~r.panic /\ r.err # NoErr THEN Wrapped(r) ELSE r
          i == FindKey(h, n, currentStep.s)
      IN CASE currentStep.t = "string" ->
                IF h[n].Kind # "Mapping"
                THEN Fresh(Err("node is not a mapping node: found a %v", h[n].Kind))
                ELSE IF i = -1 THEN Fresh(Err("step cannot be found", ""))
                ELSE IF i + 1 >= Len(c)
                THEN Fresh(Err("found key node, but current object has no value node", ""))
                ELSE Descend(At(c, i + 1))
           [] currentStep.t = "int" ->
                IF h[n].Kind # "Sequence"
                THEN Fresh(Err("node is not a sequence node: found a %v", h[n].Kind))
                ELSE IF currentStep.i >= Len(c) THEN Fresh(Err("step cannot be found", ""))
                \* Content[step] with a negative step: index out of range
                ELSE IF currentStep.i < 0
                THEN [node |-> 0, err |-> NoErr, arrays |-> a, paths |-> ps, panic |-> TRUE]
                ELSE Descend(At(c, currentStep.i))
           [] OTHER ->
                Fresh(Err("cannot handle %T steps when traversing paths", currentStep.t))

-----------------------------------------------------------------------------
(* node: comments and marshalling *)

CommentFields == {"HeadComment", "LineComment", "FootComment"}
SetterOf ==
    [HeadComment |-> "SetHeadComment", LineComment |-> "SetLineComment",
     FootComment |-> "SetFootComment"]
\* the comments the setters are called with
Comments == {"", "# new"}

\* HeadComment, LineComment and FootComment of a node wrapper
getComment(h, n, field) == h[n][field]
\* SetHeadComment, SetLineComment and SetFootComment of a node wrapper
setComment(h, n, field, comment) == [h EXCEPT ![n][field] = comment]

\* node.MarshalYAML: the wrapped node and no error
MarshalYAML(h, n) == [heap |-> h, node |-> n, err |-> NoErr, panic |-> FALSE]

-----------------------------------------------------------------------------
(* node: writing *)

WriteRes(h, node, err, panic) == [heap |-> h, node |-> node, err |-> err, panic |-> panic]

\* MustGet: the node get finds, a fresh null node when it finds none
MustGet(h, n, steps) ==
    LET g == get(h, n, steps)
    IN IF g.panic THEN WriteRes(h, 0, NoErr, TRUE)
       ELSE IF ~g.found THEN WriteRes(Append(h, nullNode), Len(h) + 1, NoErr, FALSE)
       ELSE WriteRes(h, g.node, NoErr, FALSE)

setNode(h, n, newNode, forbidKindChange) ==
    IF forbidKindChange /\ ~compatibleKinds(h, newNode, n)
    THEN WriteRes(h, 0, Err("cannot set a new node kind without replacing the node", ""), FALSE)
    ELSE WriteRes(deepCopyNode(h, n, h[newNode]), 0, NoErr, FALSE)

set(h, n, value, forbidKindChange) ==
    LET parsed == createNode(h, value)
    IN IF parsed.err # NoErr THEN WriteRes(h, 0, parsed.err, FALSE)
       ELSE setNode(parsed.heap, n, parsed.id, forbidKindChange)

\* the padding made of strings reading "null" in place of null nodes
RECURSIVE PadToStr(_, _, _)
PadToStr(h, n, step) ==
    IF step >= Len(h[n].Content)
    THEN LET id == Len(h) + 1
             h1 == Append(h, stringNode("null"))
         IN PadToStr([h1 EXCEPT ![n].Content = Append(@, id)], n, step)
    ELSE h

\* the padding loop of setKeyNode: null nodes are appended to the sequence n
\* until the Go index step is inside it
RECURSIVE PadTo(_, _, _)
PadTo(h, n, step) ==
    IF step >= Len(h[n].Content)
    THEN LET id == Len(h) + 1
             h1 == Append(h, nullNode)
         IN PadTo([h1 EXCEPT ![n].Content = Append(@, id)], n, step)
    ELSE h

\* the fields of the new node are copied into the node the slot holds
SetSlotInPlace(h, n, i, newNode) == [h EXCEPT ![h[n].Content[i + 1]] = h[newNode]]

\* the assignment to the slot left out
SetSlotDropped(h, n, i, newNode) == h

\* n.node.Content[i] = newNode
SetSlot(h, n, i, newNode) == [h EXCEPT ![n].Content[i + 1] = newNode]

\* the new pair's key node is left without the step's text
AppendPairUnnamed(h, n, step, newNode) ==
    LET k == Len(h) + 1
        h1 == Append(h, stringNode(""))
    IN [h1 EXCEPT ![n].Content = @ \o <<k, newNode>>]

\* n.node.Content = append(n.node.Content, stringNode(step), newNode)
AppendPair(h, n, step, newNode) ==
    LET k == Len(h) + 1
        h1 == Append(h, stringNode(step))
    IN [h1 EXCEPT ![n].Content = @ \o <<k, newNode>>]

setKeyNode(h, n, key, newNode, forbidKindChange) ==
    LET c == h[n].Content
    IN CASE h[n].Kind = "Mapping" ->
              IF key.t # "string"
              THEN WriteRes(h, 0, Err("invalid key type, must be string", ""), FALSE)
              ELSE LET i == FindKey(h, n, key.s)
                   IN IF i # -1
                      THEN IF i + 1 >= Len(c)
                           THEN WriteRes(h, 0, Err("found key node, but current object has no value node", ""), FALSE)
                           ELSE IF forbidKindChange /\ ~compatibleKinds(h, At(c, i + 1), newNode)
                           THEN WriteRes(h, 0, Err("cannot change the node's kind", ""), FALSE)
                           ELSE WriteRes(SetSlot(h, n, i + 1, newNode), 0, NoErr, FALSE)
                      ELSE WriteRes(AppendPair(h, n, key.s, newNode), 0, NoErr, FALSE)
         [] h[n].Kind = "Sequence" ->
              IF key.t # "int"
              THEN WriteRes(h, 0, Err("invalid key type, must be int", ""), FALSE)
              ELSE IF key.i < 0
              THEN WriteRes(h, 0, Err("step must be >= 0", ""), FALSE)
              ELSE LET h1 == PadTo(h, n, key.i)
                   IN IF forbidKindChange /\ ~compatibleKinds(h1, At(h1[n].Content, key.i), newNode)
                      THEN WriteRes(h1, 0, Err("cannot change the node's kind", ""), FALSE)
                      ELSE WriteRes(SetSlot(h1, n, key.i, newNode), 0, NoErr, FALSE)
         [] OTHER ->
              WriteRes(h, 0, Err("node is neither sequence nor mapping node, cannot set a child value", ""), FALSE)

setKey(h, n, key, value, forbidKindChange) ==
    LET new == createNode(h, value)
    IN IF new.err # NoErr THEN WriteRes(h, 0, new.err, FALSE)
       ELSE LET r == setKeyNode(new.heap, n, key, new.id, forbidKindChange)
            IN IF r.err # NoErr THEN r
               ELSE WriteRes(r.heap, new.id, NoErr, FALSE)

RECURSIVE setAt(_, _, _, _, _)
setAt(h, n, path, value, forbidKindChange) ==
    IF Len(path) = 0 THEN WriteRes(h, 0, Err("path cannot be empty", ""), FALSE)
    ELSE IF Validate(path) # NoErr THEN WriteRes(h, 0, Validate(path), FALSE)
    ELSE IF Len(path) = 1 THEN setKey(h, n, path[1], value, forbidKindChange)
    ELSE
      LET head == Head(path)
          tail == Tail(path)
          g == get(h, n, <<head>>)
          coerce == createFittingEmptyNode(head)
          \* the heap after the in-place overwrite of an untraversable node
          h1 == IF g.incompatibleKind THEN deepCopyNode(h, n, coerce.node) ELSE h
          keyFound == g.found /\ ~g.incompatibleKind
          fitting == createFittingEmptyNode(Start(tail))
          newEmptyNode == Len(h1) + 1
          ins == setKeyNode(Append(h1, fitting.node), n, head, newEmptyNode, FALSE)
      IN IF g.panic THEN WriteRes(h, 0, NoErr, TRUE)
         ELSE IF g.incompatibleKind /\ forbidKindChange
         THEN WriteRes(h, 0, Err("current node cannot be traversed into and changing the kind is disabled", ""), FALSE)
         ELSE IF g.incompatibleKind /\ coerce.err # NoErr THEN WriteRes(h, 0, coerce.err, FALSE)
         ELSE IF ~keyFound
         THEN IF fitting.err # NoErr THEN WriteRes(h1, 0, fitting.err, FALSE)
              ELSE IF ins.err # NoErr THEN WriteRes(ins.heap, 0, ins.err, FALSE)
              ELSE setAt(ins.heap, newEmptyNode, tail, value, forbidKindChange)
         ELSE setAt(h1, g.node, tail, value, forbidKindChange)

-----------------------------------------------------------------------------
(* node: deleting *)

\* the cut starting one element late
SpliceLate(c, i, j) == SubSeq(c, 1, i + 1) \o SubSeq(c, j + 2, Len(c))

\* the cut taking out the first element only
SpliceOne(c, i, j) == SubSeq(c, 1, i) \o SubSeq(c, i + 2, Len(c))

\* Go's append(c[:i], c[j:]...), for 0 <= i <= j <= len(c)
Splice(c, i, j) == SubSeq(c, 1, i) \o SubSeq(c, j + 1, Len(c))

\* the default branch returning nil as the other branches do
deleteUnsupportedSilent(h, step) == WriteRes(h, 0, NoErr, FALSE)

\* the default branch of DeleteKey's type switch
deleteUnsupported(h, step) == WriteRes(h, 0, Err("cannot handle %T steps", step.t), FALSE)

\* DeleteKey with exactly one step
deleteStep(h, n, step) ==
    LET c == h[n].Content
    IN CASE step.t = "string" ->
              IF h[n].Kind # "Mapping" THEN WriteRes(h, 0, NoErr, FALSE)
              ELSE LET keyIndex == FindKey(h, n, step.s)
                   IN IF keyIndex # -1 /\ keyIndex + 1 >= Len(c) THEN WriteRes(h, 0, NoErr, FALSE)
                      ELSE IF keyIndex = -1 THEN WriteRes(h, 0, NoErr, FALSE)
                      ELSE WriteRes([h EXCEPT ![n].Content = Splice(c, keyIndex, keyIndex + 2)], 0, NoErr, FALSE)
         [] step.t = "int" ->
              IF h[n].Kind # "Sequence" THEN WriteRes(h, 0, NoErr, FALSE)
              ELSE IF step.i >= Len(c) THEN WriteRes(h, 0, NoErr, FALSE)
              \* Content[:step] with a negative step: slice bounds out of range
              ELSE IF step.i < 0 THEN WriteRes(h, 0, NoErr, TRUE)
              ELSE WriteRes([h EXCEPT ![n].Content = Splice(c, step.i, step.i + 1)], 0, NoErr, FALSE)
         [] OTHER -> deleteUnsupported(h, step)

DeleteKey(h, n, steps) ==
    IF Len(steps) = 0 THEN WriteRes(h, 0, Err("path cannot be empty", ""), FALSE)
    ELSE IF Len(steps) > 1
    THEN LET g == get(h, n, SubSeq(steps, 1, Len(steps) - 1))
         IN IF g.panic THEN WriteRes(h, 0, NoErr, TRUE)
            ELSE IF ~g.found THEN WriteRes(h, 0, NoErr, FALSE)
            ELSE deleteStep(h, g.node, steps[Len(steps)])
    ELSE deleteStep(h, n, steps[1])

-----------------------------------------------------------------------------
(* The documents the calls start from, as the yaml decoder parses them *)

Str(v) == stringNode(v)
MapT(content) == [mappingNode EXCEPT !.Content = content]
SeqT(content) == [sequenceNode EXCEPT !.Content = content]
DocT(root) == NodeRec("Document", "", "", "", <<root>>, "", "", "")

Docs == {
    \* a: x # note
    \* b: [x, y]
    DocT(MapT(<<Str("a"), [Str("x") EXCEPT !.LineComment = "# note"],
                Str("b"), [SeqT(<<Str("x"), Str("y")>>) EXCEPT !.Style = "Flow"]>>)),
    \* - a: x
    \* - null
    \* - y
    DocT([SeqT(<<MapT(<<Str("a"), Str("x")>>), nullNode, Str("y")>>) EXCEPT !.HeadComment = "# list"]),
    \* a: null
    \* b: {b: x}
    \* a: y
    DocT(MapT(<<Str("a"), nullNode,
                Str("b"), MapT(<<Str("b"), Str("x")>>),
                Str("a"), Str("y")>>)),
    \* x
    DocT(Str("x")),
    \* b: &a []
    \* *a : y
    DocT(MapT(<<Str("b"), SeqT(<<>>),
                NodeRec("Alias", "", "", "a", <<>>, "", "", ""), Str("y")>>)),
    \* null
    DocT(nullNode)
}

Values == {
    VNil,
    VStr("x"),
    VInt(12),
    VSlice(<<VStr("y")>>),
    VMap(<<"a", "b">>, <<VNil, VStr("x")>>),
    VFunc
}

-----------------------------------------------------------------------------
(* The state machine: a document is loaded and a call is made on a wrapper *)

DocNode == 1
\* the wrapper is made around the document node itself
RootNodeSelf(h) == DocNode

\* document.GetRootNode: the document's content child
RootNode(h) == h[DocNode].Content[1]
\* NewNode wraps any node but the document node
Wrappable(h) == {id \in 1..Len(h) : h[id].Kind # "Document"}

\* seq counts the calls made so far
NoCall ==
    [op |-> "none", recv |-> 0, steps |-> <<>>, value |-> VNil,
     status |-> "ok", err |-> NoErr, node |-> 0, found |-> FALSE, text |-> "",
     seq |-> 0]

Status(r) == IF r.panic THEN "panic" ELSE IF r.err # NoErr THEN "error" ELSE "ok"

Call(op, recv, steps, value, status, err, node, found) ==
    [op |-> op, recv |-> recv, steps |-> steps, value |-> value,
     status |-> status, err |-> err, node |-> node, found |-> found, text |-> "",
     seq |-> 0]

Init ==
    /\ heap \in {Alloc(<<>>, d).heap : d \in Docs}
    /\ pre = heap
    /\ last = NoCall
    /\ arrays = <<>>
    /\ paths = <<>>
    /\ pcall = NoPathCall

\* a write call: its result becomes the state
Written(op, recv, steps, value, r) ==
    /\ pre' = heap
    /\ heap' = r.heap
    /\ last' = Call(op, recv, steps, value, Status(r), r.err, r.node, r.node # 0)
    /\ UNCHANGED pathVars

Get ==
    /\ last.op = "none"
    /\ \E recv \in Wrappable(heap), steps \in Paths :
          LET g == get(heap, recv, steps)
          IN /\ pre' = heap
             /\ heap' = heap
             /\ last' = Call("Get", recv, steps, VNil,
                             IF g.panic THEN "panic" ELSE "ok", NoErr, g.node, g.found)
             /\ UNCHANGED pathVars

Set ==
    /\ last.op = "none"
    /\ \E recv \in Wrappable(heap), value \in Values :
          Written("Set", recv, <<>>, value, set(heap, recv, value, TRUE))

Replace ==
    /\ last.op = "none"
    /\ \E recv \in Wrappable(heap), value \in Values :
          Written("Replace", recv, <<>>, value, set(heap, recv, value, FALSE))

SetKey ==
    /\ last.op = "none"
    /\ \E recv \in Wrappable(heap), key \in Steps, value \in Values :
          Written("SetKey", recv, <<key>>, value, setKey(heap, recv, key, value, TRUE))

ReplaceKey ==
    /\ last.op = "none"
    /\ \E recv \in Wrappable(heap), key \in Steps, value \in Values :
          Written("ReplaceKey", recv, <<key>>, value, setKey(heap, recv, key, value, FALSE))

SetAt ==
    /\ last.op = "none"
    /\ \E recv \in Wrappable(heap), path \in Paths, value \in Values :
          Written("SetAt", recv, path, value, setAt(heap, recv, path, value, TRUE))

ReplaceAt ==
    /\ last.op = "none"
    /\ \E recv \in Wrappable(heap), path \in Paths, value \in Values :
          Written("ReplaceAt", recv, path, value, setAt(heap, recv, path, value, FALSE))

Delete ==
    /\ last.op = "none"
    /\ \E recv \in Wrappable(heap), steps \in Paths :
          Written("DeleteKey", recv, steps, VNil, DeleteKey(heap, recv, steps))

MustGetCall ==
    /\ last.op = "none"
    /\ \E recv \in Wrappable(heap), steps \in Paths :
          Written("MustGet", recv, steps, VNil, MustGet(heap, recv, steps))

\* a call that reads: the heap stays
Answered(op, recv, steps, g) ==
    /\ pre' = heap
    /\ heap' = heap
    /\ last' = Call(op, recv, steps, VNil,
                    IF g.panic THEN "panic" ELSE "ok", NoErr, g.node, g.found)
    /\ UNCHANGED pathVars

GetKeyCall ==
    /\ last.op = "none"
    /\ \E recv \in Wrappable(heap), steps \in Paths :
          Answered("GetKey", recv, steps, GetKey(heap, recv, steps))

CommentCall ==
    /\ last.op = "none"
    /\ \E recv \in Wrappable(heap), field \in CommentFields :
          /\ pre' = heap
          /\ heap' = heap
          /\ last' = [Call(field, recv, <<>>, VNil, "ok", NoErr, 0, FALSE)
                        EXCEPT !.text = getComment(heap, recv, field)]
          /\ UNCHANGED pathVars

SetCommentCall ==
    /\ last.op = "none"
    /\ \E recv \in Wrappable(heap), field \in CommentFields, comment \in Comments :
          /\ pre' = heap
          /\ heap' = setComment(heap, recv, field, comment)
          /\ last' = [Call(SetterOf[field], recv, <<>>, VNil, "ok", NoErr, recv, TRUE)
                        EXCEPT !.text = comment]
          /\ UNCHANGED pathVars

\* the key nodes GetKey gives a view of
KeyNodes(h) ==
    {GetKey(h, n, steps).node : n \in Wrappable(h), steps \in Paths} \ {0}
\* the comment methods of a key view, as the call record names them
KeyOp ==
    [HeadComment |-> "KeyNode.HeadComment", LineComment |-> "KeyNode.LineComment",
     FootComment |-> "KeyNode.FootComment",
     SetHeadComment |-> "KeyNode.SetHeadComment",
     SetLineComment |-> "KeyNode.SetLineComment",
     SetFootComment |-> "KeyNode.SetFootComment"]

\* HeadComment, LineComment and FootComment of a key view
KeyCommentCall ==
    /\ last.op = "none"
    /\ \E recv \in KeyNodes(heap), field \in CommentFields :
          /\ pre' = heap
          /\ heap' = heap
          /\ last' = [Call(KeyOp[field], recv, <<>>, VNil, "ok", NoErr, 0, FALSE)
                        EXCEPT !.text = heap[recv][field]]
          /\ UNCHANGED pathVars

\* SetHeadComment, SetLineComment and SetFootComment of a key view
KeySetCommentCall ==
    /\ last.op = "none"
    /\ \E recv \in KeyNodes(heap), field \in CommentFields, comment \in Comments :
          /\ pre' = heap
          /\ heap' = [heap EXCEPT ![recv][field] = comment]
          /\ last' = [Call(KeyOp[SetterOf[field]], recv, <<>>, VNil, "ok", NoErr, recv, TRUE)
                        EXCEPT !.text = comment]
          /\ UNCHANGED pathVars

\* nodeGet on a wrapped node: the Path values of the error are kept
NodeGetCall ==
    /\ last.op = "none"
    /\ \E recv \in Wrappable(heap), path \in Paths :
          LET r == nodeGet(heap, recv, path, arrays, paths)
          IN /\ pre' = heap
             /\ heap' = heap
             /\ last' = Call("nodeGet", recv, path, VNil, Status(r), r.err, r.node, r.node # 0)
             /\ arrays' = r.arrays
             /\ paths' = r.paths
             /\ UNCHANGED pcall

ValidateCall ==
    /\ last.op = "none"
    /\ \E path \in Paths :
          /\ pre' = heap
          /\ heap' = heap
          /\ last' = Call("Validate", 0, path, VNil,
                          IF Validate(path) # NoErr THEN "error" ELSE "ok",
                          Validate(path), 0, FALSE)
          /\ UNCHANGED pathVars

MarshalYAMLCall ==
    /\ last.op = "none"
    /\ \E recv \in Wrappable(heap) :
          Written("MarshalYAML", recv, <<>>, VNil, MarshalYAML(heap, recv))

-----------------------------------------------------------------------------
(* document: a wrapper around the document node *)

\* document.MarshalYAML panics
documentMarshalYAMLReturns(h) == [heap |-> h, node |-> DocNode, err |-> NoErr, panic |-> FALSE]

documentMarshalYAML(h) == [heap |-> h, node |-> 0, err |-> NoErr, panic |-> TRUE]

\* the document's comment methods, as the call record names them
DocOp ==
    [HeadComment |-> "Document.HeadComment", LineComment |-> "Document.LineComment",
     FootComment |-> "Document.FootComment",
     SetHeadComment |-> "Document.SetHeadComment",
     SetLineComment |-> "Document.SetLineComment",
     SetFootComment |-> "Document.SetFootComment"]

\* the comment accessors of a document read and assign d.node's fields
documentGetComment(h, field) == h[DocNode][field]
documentSetComment(h, field, comment) == [h EXCEPT ![DocNode][field] = comment]

DocGet ==
    /\ last.op = "none"
    /\ \E steps \in Paths :
          Answered("Document.Get", DocNode, steps, get(heap, RootNode(heap), steps))

DocGetKey ==
    /\ last.op = "none"
    /\ \E steps \in Paths :
          Answered("Document.GetKey", DocNode, steps, GetKey(heap, RootNode(heap), steps))

DocMustGet ==
    /\ last.op = "none"
    /\ \E steps \in Paths :
          Written("Document.MustGet", DocNode, steps, VNil,
                  MustGet(heap, RootNode(heap), steps))

DocSet ==
    /\ last.op = "none"
    /\ \E value \in Values :
          Written("Document.Set", DocNode, <<>>, value,
                  set(heap, RootNode(heap), value, TRUE))

DocReplace ==
    /\ last.op = "none"
    /\ \E value \in Values :
          Written("Document.Replace", DocNode, <<>>, value,
                  set(heap, RootNode(heap), value, FALSE))

DocSetKey ==
    /\ last.op = "none"
    /\ \E key \in Steps, value \in Values :
          Written("Document.SetKey", DocNode, <<key>>, value,
                  setKey(heap, RootNode(heap), key, value, TRUE))

DocReplaceKey ==
    /\ last.op = "none"
    /\ \E key \in Steps, value \in Values :
          Written("Document.ReplaceKey", DocNode, <<key>>, value,
                  setKey(heap, RootNode(heap), key, value, FALSE))

DocSetAt ==
    /\ last.op = "none"
    /\ \E path \in Paths, value \in Values :
          Written("Document.SetAt", DocNode, path, value,
                  setAt(heap, RootNode(heap), path, value, TRUE))

DocReplaceAt ==
    /\ last.op = "none"
    /\ \E path \in Paths, value \in Values :
          Written("Document.ReplaceAt", DocNode, path, value,
                  setAt(heap, RootNode(heap), path, value, FALSE))

DocDelete ==
    /\ last.op = "none"
    /\ \E steps \in Paths :
          Written("Document.DeleteKey", DocNode, steps, VNil,
                  DeleteKey(heap, RootNode(heap), steps))

DocComment ==
    /\ last.op = "none"
    /\ \E field \in CommentFields :
          /\ pre' = heap
          /\ heap' = heap
          /\ last' = [Call(DocOp[field], DocNode, <<>>, VNil, "ok", NoErr, 0, FALSE)
                        EXCEPT !.text = documentGetComment(heap, field)]
          /\ UNCHANGED pathVars

DocSetComment ==
    /\ last.op = "none"
    /\ \E field \in CommentFields, comment \in Comments :
          /\ pre' = heap
          /\ heap' = documentSetComment(heap, field, comment)
          /\ last' = [Call(DocOp[SetterOf[field]], DocNode, <<>>, VNil, "ok", NoErr, DocNode, TRUE)
                        EXCEPT !.text = comment]
          /\ UNCHANGED pathVars

DocMarshalYAML ==
    /\ last.op = "none"
    /\ Written("Document.MarshalYAML", DocNode, <<>>, VNil, documentMarshalYAML(heap))

Next ==
    \/ Get
    \/ GetKeyCall
    \/ MustGetCall
    \/ Set
    \/ Replace
    \/ SetKey
    \/ ReplaceKey
    \/ SetAt
    \/ ReplaceAt
    \/ Delete
    \/ CommentCall
    \/ SetCommentCall
    \/ MarshalYAMLCall
    \/ ValidateCall
    \/ NodeGetCall
    \/ KeyCommentCall
    \/ KeySetCommentCall
    \/ DocGet
    \/ DocGetKey
    \/ DocMustGet
    \/ DocSet
    \/ DocReplace
    \/ DocSetKey
    \/ DocReplaceKey
    \/ DocSetAt
    \/ DocReplaceAt
    \/ DocDelete
    \/ DocComment
    \/ DocSetComment
    \/ DocMarshalYAML

Spec == Init /\ [][Next]_vars

-----------------------------------------------------------------------------
(* The state machine of Path values: a literal, then calls on the values *)

\* the Path literals the behaviours start from: their capacity is their length
Literals ==
    {<<>>,
     <<StrStep("a")>>,
     <<StrStep("a"), IntStep(0)>>,
     <<StrStep("a"), IntStep(0), StrStep("b")>>}
\* the steps Append is called with
AppendArgs == {<<>>, <<StrStep("c")>>, <<StrStep("c"), IntStep(1)>>}
\* the step Prepend is called with
PrependArgs == {<<StrStep("c")>>, <<IntStep(1)>>}

PathInit ==
    /\ heap = <<>>
    /\ pre = <<>>
    /\ last = NoCall
    /\ \E l \in Literals :
          /\ arrays = IF l = <<>> THEN <<>> ELSE <<l>>
          /\ paths = <<Slice(IF l = <<>> THEN 0 ELSE 1, 0, Len(l))>>
    /\ pcall = NoPathCall

\* the steps of every Path value made so far
Snapshot == [i \in 1..Len(paths) |-> StepsOf(arrays, paths[i])]

PathCall(op, recv, args, step, path) ==
    [op |-> op, recv |-> recv, args |-> args, step |-> step, path |-> path,
     before |-> Snapshot]

\* a call that returns a Path: the caller keeps the value
Returned(op, recv, args, step, r) ==
    /\ Len(paths) < MaxPaths
    /\ arrays' = r.arrays
    /\ paths' = Append(paths, r.path)
    /\ pcall' = PathCall(op, recv, args, step, Len(paths) + 1)
    /\ UNCHANGED <<heap, pre, last>>

AppendCall ==
    \E recv \in 1..Len(paths), s \in AppendArgs :
       \E newcap \in GrowCaps(Cap(arrays, paths[recv]), paths[recv].len + Len(s)) :
          Returned("Append", recv, s, NilStep,
                   PathAppend(arrays, paths[recv], s, newcap))

PrependCall ==
    \E recv \in 1..Len(paths), s \in PrependArgs :
       \E newcap \in GrowCaps(Len(s), Len(s) + 1) :
          Returned("Prepend", recv, s, NilStep,
                   PathPrepend(arrays, recv, s, newcap))

ParentCall ==
    \E recv \in 1..Len(paths) :
       Returned("Parent", recv, <<>>, NilStep,
                [arrays |-> arrays, path |-> PathParent(paths[recv])])

ConsumeCall ==
    \E recv \in 1..Len(paths) :
       LET r == PathConsume(arrays, paths[recv])
       IN Returned("Consume", recv, <<>>, r.step, [arrays |-> arrays, path |-> r.path])

StartCall ==
    \E recv \in 1..Len(paths) :
       /\ pcall' = PathCall("Start", recv, <<>>, PathStart(arrays, paths[recv]), 0)
       /\ UNCHANGED <<heap, pre, last, arrays, paths>>

EndCall ==
    \E recv \in 1..Len(paths) :
       /\ pcall' = PathCall("End", recv, <<>>, PathEnd(arrays, paths[recv]), 0)
       /\ UNCHANGED <<heap, pre, last, arrays, paths>>

PathNext ==
    \/ AppendCall
    \/ PrependCall
    \/ ParentCall
    \/ ConsumeCall
    \/ StartCall
    \/ EndCall

PathSpec == PathInit /\ [][PathNext]_vars

-----------------------------------------------------------------------------
(* The state machine of call sequences: a document is loaded, wrappers for
   its root node and the root's entries are obtained with Get, and write and
   delete calls are made through them one after the other *)

\* a: {c: x}
\* b: [x, y]
SeqDoc ==
    DocT(MapT(<<Str("a"), MapT(<<Str("c"), Str("x")>>),
                Str("b"), SeqT(<<Str("x"), Str("y")>>)>>))

SeqHeap == Alloc(<<>>, SeqDoc).heap

\* the wrappers held: GetRootNode and what Get with one step finds from it
Held ==
    {RootNode(SeqHeap)} \cup
    {get(SeqHeap, RootNode(SeqHeap), <<s>>).node :
        s \in {t \in Steps : get(SeqHeap, RootNode(SeqHeap), <<t>>).found}}

SeqSteps == {StrStep("a"), StrStep("c"), IntStep(0)}
SeqPaths == {<<StrStep("a"), StrStep("c")>>, <<StrStep("b"), IntStep(0)>>}
SeqValues == {VStr("y"), VSlice(<<VNil>>), VMap(<<"a">>, <<VNil>>)}

SeqInit ==
    /\ heap = SeqHeap
    /\ pre = heap
    /\ last = NoCall
    /\ arrays = <<>>
    /\ paths = <<>>
    /\ pcall = NoPathCall

\* one more call: a panic ends the program
SeqWritten(op, recv, steps, value, r) ==
    /\ last.seq < MaxCalls
    /\ last.status # "panic"
    /\ pre' = heap
    /\ heap' = r.heap
    /\ last' = [Call(op, recv, steps, value, Status(r), r.err, r.node, r.node # 0)
                    EXCEPT !.seq = last.seq + 1]
    /\ UNCHANGED pathVars

SeqSet ==
    \E recv \in Held, value \in SeqValues :
        SeqWritten("Set", recv, <<>>, value, set(heap, recv, value, TRUE))

SeqReplace ==
    \E recv \in Held, value \in SeqValues :
        SeqWritten("Replace", recv, <<>>, value, set(heap, recv, value, FALSE))

SeqSetKey ==
    \E recv \in Held, key \in SeqSteps, value \in SeqValues :
        SeqWritten("SetKey", recv, <<key>>, value, setKey(heap, recv, key, value, TRUE))

SeqReplaceKey ==
    \E recv \in Held, key \in SeqSteps, value \in SeqValues :
        SeqWritten("ReplaceKey", recv, <<key>>, value, setKey(heap, recv, key, value, FALSE))

SeqSetAt ==
    \E recv \in Held, path \in SeqPaths, value \in SeqValues :
        SeqWritten("SetAt", recv, path, value, setAt(heap, recv, path, value, TRUE))

SeqReplaceAt ==
    \E recv \in Held, path \in SeqPaths, value \in SeqValues :
        SeqWritten("ReplaceAt", recv, path, value, setAt(heap, recv, path, value, FALSE))

SeqDelete ==
    \E recv \in Held, steps \in SeqPaths \cup {<<s>> : s \in SeqSteps} :
        SeqWritten("DeleteKey", recv, steps, VNil, DeleteKey(heap, recv, steps))

SeqNext ==
    \/ SeqSet
    \/ SeqReplace
    \/ SeqSetKey
    \/ SeqReplaceKey
    \/ SeqSetAt
    \/ SeqReplaceAt
    \/ SeqDelete

SeqSpec == SeqInit /\ [][SeqNext]_vars

-----------------------------------------------------------------------------
(* Claims *)

AtOps == {"SetAt", "ReplaceAt"}
KeyOps == {"SetKey", "ReplaceKey"}
KindPreserving == {"Set", "SetKey", "SetAt"}
Kinds3 == {"Mapping", "Sequence", "Scalar"}

\* the steps of the last call but the final one, and the final one
ParentSteps == SubSeq(last.steps, 1, Len(last.steps) - 1)
FinalStep == last.steps[Len(last.steps)]
\* the node the final step of the last call addresses into, before the call
\* (0 when the steps before the final one did not resolve)
ParentBefore ==
    IF Len(last.steps) = 1 THEN last.recv
    ELSE LET g == get(pre, last.recv, ParentSteps)
         IN IF g.found THEN g.node ELSE 0
\* what the steps of the last call resolve to before and after the call
SlotBefore == get(pre, last.recv, last.steps)
SlotAfter == get(heap, last.recv, last.steps)

\* C1: after a successful SetAt(P, v) on a node, Get(P...) on the same node
\* reports found and returns a node whose tree is the encoding of v and
\* which decodes back to v.
C1_SetAtThenGet ==
    (last.op = "SetAt" /\ last.status = "ok") =>
        /\ SlotAfter.found
        /\ ~SlotAfter.panic
        /\ TermOf(heap, SlotAfter.node) = Encode(last.value)
        /\ Decode(heap, SlotAfter.node) = last.value

\* a SetAt of a map through a two-step path that did not resolve before
C1_Witness ==
    /\ last.op = "SetAt"
    /\ last.status = "ok"
    /\ Len(last.steps) = 2
    /\ last.value.t = "map"
    /\ ~SlotBefore.found

IsNullScalar(h, id) == h[id].Kind = "Scalar" /\ h[id].Tag = "!!null"
\* the write calls that take a key or a path, made with a value that can be
\* turned into a node
ChildWrite == last.op \in KeyOps \cup AtOps /\ last.value.t # "func"
NewKind == Encode(last.value).Kind
\* the last call's steps resolved before the call: the slot was there
SlotHeld == SlotBefore.found /\ ~SlotBefore.panic
KindsDiffer ==
    /\ pre[SlotBefore.node].Kind \in Kinds3
    /\ pre[SlotBefore.node].Kind # NewKind
    /\ ~IsNullScalar(pre, SlotBefore.node)
    /\ last.value.t # "nil"

\* C2: when the slot the final step addresses holds a node of another kind
\* than the new value and neither is null, SetKey and SetAt fail and leave
\* the slot as it was, ReplaceKey and ReplaceAt succeed and the slot holds
\* the new value; when the kinds are equal both families succeed.
C2_KindChangePolicy ==
    (ChildWrite /\ SlotHeld) =>
        /\ (KindsDiffer /\ last.op \in KindPreserving) =>
              /\ last.status = "error"
              /\ SlotAfter.found
              /\ SlotAfter.node = SlotBefore.node
              /\ TermOf(heap, SlotAfter.node) = TermOf(pre, SlotBefore.node)
        /\ (KindsDiffer /\ last.op \notin KindPreserving) =>
              /\ last.status = "ok"
              /\ SlotAfter.found
              /\ TermOf(heap, SlotAfter.node) = Encode(last.value)
        /\ pre[SlotBefore.node].Kind = NewKind => last.status = "ok"

\* a SetAt through two steps refused because it would change the kind
C2_Witness ==
    /\ last.op = "SetAt"
    /\ Len(last.steps) = 2
    /\ last.value.t # "func"
    /\ SlotHeld
    /\ KindsDiffer
    /\ last.status = "error"

\* C3: under Set, SetKey and SetAt, any value written onto a target that
\* is a null scalar succeeds and the target takes the value's kind, and
\* null written onto a target of any kind succeeds and the target becomes
\* a null scalar.
C3_NullCompatible ==
    /\ (last.op = "Set" /\ last.value.t # "func") =>
          /\ IsNullScalar(pre, last.recv) =>
                last.status = "ok" /\ heap[last.recv].Kind = NewKind
          /\ last.value.t = "nil" =>
                last.status = "ok" /\ IsNullScalar(heap, last.recv)
    /\ (last.op \in {"SetKey", "SetAt"} /\ last.value.t # "func" /\ SlotHeld) =>
          /\ IsNullScalar(pre, SlotBefore.node) =>
                /\ last.status = "ok"
                /\ SlotAfter.found
                /\ heap[SlotAfter.node].Kind = NewKind
          /\ last.value.t = "nil" =>
                /\ last.status = "ok"
                /\ SlotAfter.found
                /\ IsNullScalar(heap, SlotAfter.node)

\* a sequence written by SetKey onto a slot that held null
C3_Witness ==
    /\ last.op = "SetKey"
    /\ last.value.t = "slice"
    /\ SlotHeld
    /\ IsNullScalar(pre, SlotBefore.node)
    /\ last.status = "ok"
    /\ heap[SlotAfter.node].Kind = "Sequence"

\* the Go indices of the key nodes of mapping n that equal the string s
MatchingKeys(h, n, s) ==
    {i \in 0..(Len(h[n].Content) - 1) :
        /\ i % 2 = 0
        /\ h[h[n].Content[i + 1]].Kind = "Scalar"
        /\ h[h[n].Content[i + 1]].Value = s}
\* a successful child write whose final step addressed into a node of the
\* given kind that was there before the call
ChildWriteInto(kind) ==
    /\ last.op \in KeyOps \cup AtOps
    /\ last.status = "ok"
    /\ ParentBefore # 0
    /\ pre[ParentBefore].Kind = kind
\* the node and the tree below it are what they were before the call
SameNode(a, b) == a = b /\ TermOf(heap, a) = TermOf(pre, b)

\* C4: a successful child write into a mapping changes exactly one entry:
\* with a key equal to the step, the value slot of the first such entry is
\* replaced and all else stays; without one, a new pair is appended after
\* the existing entries, which stay as they were and in their order.
C4_MappingWriteFrame ==
    ChildWriteInto("Mapping") =>
        LET c == pre[ParentBefore].Content
            d == heap[ParentBefore].Content
            m == MatchingKeys(pre, ParentBefore, FinalStep.s)
        IN /\ FinalStep.t = "string"
           /\ m # {} =>
                 /\ Len(d) = Len(c)
                 /\ \A j \in 1..Len(c) : j # Min(m) + 2 => SameNode(d[j], c[j])
                 /\ TermOf(heap, d[Min(m) + 2]) = Encode(last.value)
           /\ m = {} =>
                 /\ Len(d) = Len(c) + 2
                 /\ \A j \in 1..Len(c) : SameNode(d[j], c[j])
                 /\ heap[d[Len(c) + 1]] = stringNode(FinalStep.s)
                 /\ TermOf(heap, d[Len(c) + 2]) = Encode(last.value)

\* a write of a key the mapping holds twice
C4_Witness ==
    /\ ChildWriteInto("Mapping")
    /\ Cardinality(MatchingKeys(pre, ParentBefore, FinalStep.s)) = 2

\* C5: a successful child write at index i into a sequence of length L gives
\* a sequence of length max(L, i+1) with the new value at i, the elements
\* below L other than i unchanged and null scalars from L to i-1; the
\* sequence node's own fields are unchanged.
C5_SequenceWrite ==
    ChildWriteInto("Sequence") =>
        LET c == pre[ParentBefore].Content
            d == heap[ParentBefore].Content
            i == FinalStep.i
            L == Len(c)
        IN /\ FinalStep.t = "int"
           /\ i >= 0
           /\ Len(d) = IF L > i + 1 THEN L ELSE i + 1
           /\ TermOf(heap, d[i + 1]) = Encode(last.value)
           /\ \A j \in 0..(L - 1) : j # i => SameNode(d[j + 1], c[j + 1])
           /\ \A j \in L..(i - 1) : heap[d[j + 1]] = nullNode
           /\ [heap[ParentBefore] EXCEPT !.Content = <<>>] = [pre[ParentBefore] EXCEPT !.Content = <<>>]

\* a write beyond the end of a sequence, which pads it
C5_Witness ==
    /\ ChildWriteInto("Sequence")
    /\ FinalStep.i > Len(pre[ParentBefore].Content)

\* the final step of the last call addresses an entry that is there
EntryExists ==
    /\ Len(last.steps) >= 1
    /\ ParentBefore # 0
    /\ \/ /\ FinalStep.t = "string"
          /\ pre[ParentBefore].Kind = "Mapping"
          /\ MatchingKeys(pre, ParentBefore, FinalStep.s) # {}
       \/ /\ FinalStep.t = "int"
          /\ pre[ParentBefore].Kind = "Sequence"
          /\ FinalStep.i >= 0
          /\ FinalStep.i < Len(pre[ParentBefore].Content)
\* c without the n elements from Go index i on
Without(c, i, n) == [j \in 1..(Len(c) - n) |-> IF j <= i THEN c[j] ELSE c[j + n]]

\* C6: DeleteKey of an existing entry removes exactly that entry: in a
\* mapping the key node and its value node, in a sequence the element, the
\* later elements moving left; nothing else in the tree changes.
C6_DeleteRemovesEntry ==
    (last.op = "DeleteKey" /\ EntryExists) =>
        LET c == pre[ParentBefore].Content
        IN /\ last.status = "ok"
           /\ heap = [pre EXCEPT ![ParentBefore].Content =
                        IF FinalStep.t = "string"
                        THEN Without(c, Min(MatchingKeys(pre, ParentBefore, FinalStep.s)), 2)
                        ELSE Without(c, FinalStep.i, 1)]

\* a delete through two steps of an element that is not the last
C6_Witness ==
    /\ last.op = "DeleteKey"
    /\ EntryExists
    /\ Len(last.steps) = 2
    /\ FinalStep.t = "int"
    /\ FinalStep.i + 1 < Len(pre[ParentBefore].Content)
    /\ Len(heap[ParentBefore].Content) = Len(pre[ParentBefore].Content) - 1

\* the node the steps lead to from node n in the tree of h, 0 when there is
\* none: a string step leads from a mapping to the value of the first key
\* equal to it, an integer step from a sequence to the element at that index
RECURSIVE Resolve(_, _, _)
Resolve(h, n, steps) ==
    IF steps = <<>> THEN n
    ELSE LET s == Head(steps)
             c == h[n].Content
             m == MatchingKeys(h, n, s.s)
             child == CASE s.t = "string" /\ h[n].Kind = "Mapping" /\ m # {} -> c[Min(m) + 2]
                        [] s.t = "int" /\ h[n].Kind = "Sequence" /\ s.i >= 0 /\ s.i < Len(c) -> c[s.i + 1]
                        [] OTHER -> 0
         IN IF child = 0 THEN 0 ELSE Resolve(h, child, Tail(steps))

\* the three cases in which DeleteKey has nothing to delete
ParentMissing == Len(last.steps) >= 2 /\ Resolve(pre, last.recv, ParentSteps) = 0
KeyAbsent ==
    /\ Len(last.steps) >= 1
    /\ Resolve(pre, last.recv, ParentSteps) # 0
    /\ FinalStep.t = "string"
    /\ pre[Resolve(pre, last.recv, ParentSteps)].Kind = "Mapping"
    /\ MatchingKeys(pre, Resolve(pre, last.recv, ParentSteps), FinalStep.s) = {}
KindMismatch ==
    /\ Len(last.steps) >= 1
    /\ Resolve(pre, last.recv, ParentSteps) # 0
    /\ \/ FinalStep.t = "string" /\ pre[Resolve(pre, last.recv, ParentSteps)].Kind # "Mapping"
       \/ FinalStep.t = "int" /\ pre[Resolve(pre, last.recv, ParentSteps)].Kind # "Sequence"

\* C7: DeleteKey returns no error and leaves the tree unchanged when the
\* parent path of the final step does not exist, when the final key is
\* absent from the addressed mapping, and when the addressed node's kind
\* does not match the final step's type.
C7_DeleteNoOp ==
    (last.op = "DeleteKey" /\ (ParentMissing \/ KeyAbsent \/ KindMismatch)) =>
        last.status = "ok" /\ heap = pre

\* C8: DeleteKey whose final step is an integer index outside the bounds of
\* the addressed sequence returns no error, does not fail otherwise and
\* leaves the sequence unchanged, for every such index.
C8_DeleteOutOfBounds ==
    (/\ last.op = "DeleteKey"
     /\ Len(last.steps) >= 1
     /\ Resolve(pre, last.recv, ParentSteps) # 0
     /\ FinalStep.t = "int"
     /\ pre[Resolve(pre, last.recv, ParentSteps)].Kind = "Sequence"
     /\ \/ FinalStep.i < 0
        \/ FinalStep.i >= Len(pre[Resolve(pre, last.recv, ParentSteps)].Content))
    => last.status = "ok" /\ heap = pre

\* C9: Get with an integer step on a sequence returns the element at that
\* index when the index is within bounds, and for every index outside the
\* bounds it returns not-found without failing otherwise.
C9_GetIndex ==
    (/\ last.op = "Get"
     /\ Len(last.steps) = 1
     /\ FinalStep.t = "int"
     /\ pre[last.recv].Kind = "Sequence")
    => LET c == pre[last.recv].Content
       IN /\ last.status = "ok"
          /\ IF FinalStep.i >= 0 /\ FinalStep.i < Len(c)
             THEN last.found /\ last.node = c[FinalStep.i + 1]
             ELSE ~last.found

UnsupportedFinalStep ==
    /\ last.op = "DeleteKey"
    /\ Len(last.steps) >= 1
    /\ FinalStep.t \notin {"string", "int"}
NamesStepType ==
    /\ last.status = "error"
    /\ last.err = Err("cannot handle %T steps", FinalStep.t)

\* C10, as stated: DeleteKey fails with an error naming the step's type
\* whenever the final step is of an unsupported type.
C10_Original == UnsupportedFinalStep => NamesStepType

\* C10, amended: DeleteKey fails with an error naming the step's type, and
\* changes nothing, whenever the final step is of an unsupported type and
\* it is the only step or Get finds the node the steps before it lead to.
C10_DeleteUnsupportedStep ==
    (UnsupportedFinalStep /\ ParentBefore # 0) => NamesStepType /\ heap = pre

\* a DeleteKey of two steps with an unsupported final step on a node found
C10_Witness ==
    /\ UnsupportedFinalStep
    /\ Len(last.steps) = 2
    /\ ParentBefore # 0
    /\ last.status = "error"

\* C11: Get with one step or none.  It reports not-found for an empty list
\* of steps, for a string step on a node that is not a mapping, for an
\* integer step on a node that is not a sequence and for a step of any
\* other type; on a mapping a string step gives the value paired with the
\* first key, in entry order, whose text is the step, and not-found when
\* there is no such key.
C11_SingleStepGet ==
    (last.op = "Get" /\ Len(last.steps) <= 1) =>
        LET NotFound == last.status = "ok" /\ ~last.found /\ last.node = 0
            kind == pre[last.recv].Kind
        IN IF Len(last.steps) = 0 THEN NotFound
           ELSE LET m == MatchingKeys(pre, last.recv, FinalStep.s)
                IN /\ (FinalStep.t = "string" /\ kind # "Mapping") => NotFound
                   /\ (FinalStep.t = "int" /\ kind # "Sequence") => NotFound
                   /\ FinalStep.t \notin {"string", "int"} => NotFound
                   /\ (FinalStep.t = "string" /\ kind = "Mapping" /\ m = {}) => NotFound
                   /\ (FinalStep.t = "string" /\ kind = "Mapping" /\ m # {}) =>
                         /\ last.status = "ok"
                         /\ last.found
                         /\ last.node = pre[last.recv].Content[Min(m) + 2]

\* a Get of a key that a mapping holds twice: the first entry's value
C11_Witness ==
    /\ last.op = "Get"
    /\ Len(last.steps) = 1
    /\ FinalStep.t = "string"
    /\ pre[last.recv].Kind = "Mapping"
    /\ Cardinality(MatchingKeys(pre, last.recv, FinalStep.s)) = 2
    /\ last.found

\* Get called with one step at a time: the k-th step and those after it are
\* asked of the node the call before gave, and the calls stop at the first
\* one that does not find a node
RECURSIVE ChainedGet(_, _, _, _)
ChainedGet(h, n, steps, k) ==
    LET r == get(h, n, <<steps[k]>>)
    IN IF k = Len(steps) \/ ~r.found THEN r
       ELSE ChainedGet(h, r.node, steps, k + 1)

\* C12: Get with two or more steps gives the node and the found flag (and
\* fails where) the chain of single-step Get calls does, each made on the
\* node the one before returned, with not-found as soon as one step is not
\* found.
C12_GetChains ==
    (last.op = "Get" /\ Len(last.steps) >= 2) =>
        LET r == ChainedGet(pre, last.recv, last.steps, 1)
        IN /\ last.found = r.found
           /\ last.node = r.node
           /\ (last.status = "panic") = r.panic

\* a Get of two steps that finds a node below a child of the receiver
C12_Witness ==
    /\ last.op = "Get"
    /\ Len(last.steps) = 2
    /\ last.found
    /\ last.node # 0
    /\ get(pre, last.recv, <<last.steps[1]>>).found
    /\ get(pre, last.recv, <<last.steps[1]>>).node # last.node

\* C13: MustGet returns the node Get finds whenever the steps lead to a
\* node, and in every other case (absent key, index out of range, kind
\* mismatch, no steps) it does not fail and returns a null scalar node that
\* is not absent; the tree is left as it was.
C13_MustGet ==
    last.op = "MustGet" =>
        LET r == IF last.steps = <<>> THEN 0 ELSE Resolve(pre, last.recv, last.steps)
        IN /\ last.status = "ok"
           /\ SubSeq(heap, 1, Len(pre)) = pre
           /\ IF r # 0 THEN last.node = r
              ELSE last.node # 0 /\ heap[last.node] = nullNode

\* the lists of steps that led from the document's root to the receiver of
\* the last call before the call
PathsToRecv ==
    {p \in Paths : LET g == get(pre, RootNode(pre), p)
                   IN g.found /\ ~g.panic /\ g.node = last.recv}

\* C14: a successful Set or Replace overwrites the wrapped node in place.
\* The node keeps its identity, so whoever holds it sees the new value's
\* kind, value and children; every other node of the tree, its parent's
\* list of children included, is as before; and a Get from the root along
\* any path that led to the node still finds that node, now holding the
\* new value.
C14_SetInPlace ==
    (last.op \in {"Set", "Replace"} /\ last.status = "ok") =>
        /\ TermOf(heap, last.recv) = Encode(last.value)
        /\ \A id \in 1..Len(pre) : id # last.recv => heap[id] = pre[id]
        /\ \A p \in PathsToRecv :
              LET g == get(heap, RootNode(heap), p)
              IN /\ g.found
                 /\ g.node = last.recv
                 /\ heap[g.node].Kind = Encode(last.value).Kind
                 /\ Decode(heap, g.node) = last.value

\* a Replace that changed the kind of a node two steps below the root
C14_Witness ==
    /\ last.op = "Replace"
    /\ last.status = "ok"
    /\ \E p \in PathsToRecv : Len(p) = 2
    /\ pre[last.recv].Kind # heap[last.recv].Kind

\* a step that Validate rejects: a negative integer, or neither a string
\* nor an integer
Malformed(s) == (s.t = "int" /\ s.i < 0) \/ s.t \notin {"string", "int"}

\* C15: SetAt and ReplaceAt fail with an error and leave the tree as it was
\* when the path is empty or holds a malformed step at any position: the
\* whole path is validated before a node is created or overwritten.
C15_PathValidatedFirst ==
    (/\ last.op \in AtOps
     /\ \/ last.steps = <<>>
        \/ \E k \in 1..Len(last.steps) : Malformed(last.steps[k])) =>
        last.status = "error" /\ heap = pre

\* a SetAt refused for its second step, whose first step names a key the
\* receiving mapping does not hold: nothing was created for it
C15_Witness ==
    /\ last.op = "SetAt"
    /\ Len(last.steps) = 2
    /\ last.value.t # "func"
    /\ last.steps[1].t = "string"
    /\ pre[last.recv].Kind = "Mapping"
    /\ MatchingKeys(pre, last.recv, last.steps[1].s) = {}
    /\ Malformed(last.steps[2])
    /\ last.status = "error"
    /\ heap = pre

\* the document's single content child when the last call started
DocChild == pre[DocNode].Content[1]
DocReads == {"Document.Get", "Document.GetKey"}
DocWrites ==
    {"Document.MustGet", "Document.Set", "Document.Replace", "Document.SetKey",
     "Document.ReplaceKey", "Document.SetAt", "Document.ReplaceAt", "Document.DeleteKey"}
DocGetters == {DocOp[f] : f \in CommentFields}
DocSetters == {DocOp[SetterOf[f]] : f \in CommentFields}
\* the comment field a comment method of the document is about
FieldOf(op) == CHOOSE f \in CommentFields : op \in {DocOp[f], DocOp[SetterOf[f]]}

\* what the last call, made on a node wrapper around the content child,
\* answers and does
OnChild ==
    CASE last.op = "Document.Get" -> get(pre, DocChild, last.steps)
      [] last.op = "Document.GetKey" -> GetKey(pre, DocChild, last.steps)
      [] last.op = "Document.MustGet" -> MustGet(pre, DocChild, last.steps)
      [] last.op = "Document.Set" -> set(pre, DocChild, last.value, TRUE)
      [] last.op = "Document.Replace" -> set(pre, DocChild, last.value, FALSE)
      [] last.op = "Document.SetKey" -> setKey(pre, DocChild, last.steps[1], last.value, TRUE)
      [] last.op = "Document.ReplaceKey" -> setKey(pre, DocChild, last.steps[1], last.value, FALSE)
      [] last.op = "Document.SetAt" -> setAt(pre, DocChild, last.steps, last.value, TRUE)
      [] last.op = "Document.ReplaceAt" -> setAt(pre, DocChild, last.steps, last.value, FALSE)
      [] last.op = "Document.DeleteKey" -> DeleteKey(pre, DocChild, last.steps)

\* a read, write or delete on the document is the one on its content child
DelegatesToChild ==
    /\ last.op \in DocReads =>
          /\ heap = pre
          /\ last.found = OnChild.found
          /\ last.node = OnChild.node
          /\ (last.status = "panic") = OnChild.panic
    /\ last.op \in DocWrites =>
          /\ heap = OnChild.heap
          /\ last.node = OnChild.node
          /\ last.err = OnChild.err
          /\ last.status = Status(OnChild)

\* C16, as stated: every read, write, delete and comment call on a document
\* has the result and the effect of the same call on a node wrapper around
\* the document's content child.
C16_Original ==
    /\ DelegatesToChild
    /\ last.op \in DocGetters => last.text = getComment(pre, DocChild, FieldOf(last.op))
    /\ last.op \in DocSetters =>
          heap = setComment(pre, DocChild, FieldOf(last.op), last.text)

\* C16, amended: every read, write and delete call on a document has the
\* result and the effect of the same call on a node wrapper around the
\* document's content child; the comment calls read and set the comments of
\* the document node itself and leave every other node as it was.
C16_DocumentDelegates ==
    /\ DelegatesToChild
    /\ last.op \in DocGetters =>
          heap = pre /\ last.text = pre[DocNode][FieldOf(last.op)]
    /\ last.op \in DocSetters =>
          /\ heap[DocNode][FieldOf(last.op)] = last.text
          /\ \A f \in CommentFields \ {FieldOf(last.op)} : heap[DocNode][f] = pre[DocNode][f]
          /\ heap[DocNode].Content = pre[DocNode].Content
          /\ \A id \in 2..Len(pre) : heap[id] = pre[id]
          /\ Len(heap) = Len(pre)

\* a SetAt through the document that put a value two steps below the
\* content child
C16_Witness ==
    /\ last.op = "Document.SetAt"
    /\ last.status = "ok"
    /\ Len(last.steps) = 2
    /\ heap # pre
    /\ Resolve(heap, DocChild, last.steps) = last.node

\* C17: MarshalYAML on a document panics at the call, whatever the document
\* holds: it returns neither a value nor an error and leaves the tree as it
\* was; MarshalYAML on a node wrapper returns the wrapped node and no error.
C17_MarshalYAML ==
    /\ last.op = "Document.MarshalYAML" =>
          /\ last.status = "panic"
          /\ last.node = 0
          /\ last.err = NoErr
          /\ heap = pre
    /\ last.op = "MarshalYAML" =>
          /\ last.status = "ok"
          /\ last.node = last.recv
          /\ last.err = NoErr
          /\ heap = pre

\* MarshalYAML called on a document whose content is a mapping
C17_Witness ==
    /\ last.op = "Document.MarshalYAML"
    /\ last.recv = DocNode
    /\ pre[DocChild].Kind = "Mapping"
    /\ last.status = "panic"

\* the receiver's steps and the returned Path's steps of the last Path call
RecvBefore == pcall.before[pcall.recv]
ReturnedSteps == StepsOf(arrays, paths[pcall.path])

\* C18: p.Prepend(s) returns the path of length len(p)+1 whose first step
\* is s and whose other steps are the steps of p in their order.
C18_Prepend ==
    (pcall.op = "Prepend" /\ Len(pcall.args) = 1) =>
        /\ Len(ReturnedSteps) = Len(RecvBefore) + 1
        /\ ReturnedSteps = pcall.args \o RecvBefore

\* C19: Append(s...) returns the receiver's steps followed by s, and the
\* steps of every Path value made before the call, the receiver included,
\* are after the call what they were before it.
C19_AppendPure ==
    pcall.op = "Append" =>
        /\ ReturnedSteps = RecvBefore \o pcall.args
        /\ \A i \in 1..Len(pcall.before) : StepsOf(arrays, paths[i]) = pcall.before[i]

\* C20: Parent returns all steps but the last, and the empty path for an
\* empty or one-step path; Start returns the first step and End the last,
\* the nil step when the path is empty; Consume returns the first step and
\* the steps after it, the nil step and the empty path when the path is
\* empty.
C20_PathAccessors ==
    /\ pcall.op = "Parent" =>
          /\ ReturnedSteps = SubSeq(RecvBefore, 1, Len(RecvBefore) - 1)
          /\ Len(RecvBefore) <= 1 => ReturnedSteps = <<>>
    /\ pcall.op = "Start" =>
          pcall.step = IF RecvBefore = <<>> THEN NilStep ELSE RecvBefore[1]
    /\ pcall.op = "End" =>
          pcall.step = IF RecvBefore = <<>> THEN NilStep ELSE RecvBefore[Len(RecvBefore)]
    /\ pcall.op = "Consume" =>
          IF RecvBefore = <<>>
          THEN pcall.step = NilStep /\ ReturnedSteps = <<>>
          ELSE <<pcall.step>> \o ReturnedSteps = RecvBefore

\* a Parent call on the two steps that Consume left of a path of three
C20_Witness ==
    /\ pcall.op = "Parent"
    /\ Len(RecvBefore) = 2
    /\ \E i \in 1..Len(paths) : paths[i].off = 1 /\ paths[i] = paths[pcall.recv]
    /\ ReturnedSteps = <<IntStep(0)>>

\* the entry Validate's message holds for a malformed step
EntryOf(s) ==
    IF s.t = "int" THEN Sprintd(s.i) \o " is invalid, steps must be >= 0"
    ELSE "cannot handle " \o s.t \o " steps"
\* the entries of the first k of the steps, each two separated by "; "
RECURSIVE EntriesUpTo(_, _)
EntriesUpTo(bad, k) ==
    IF k = 1 THEN EntryOf(bad[1])
    ELSE EntriesUpTo(bad, k - 1) \o "; " \o EntryOf(bad[k])

\* C21: Validate succeeds exactly when every step is a string or an integer
\* that is not negative; otherwise it returns one error whose message holds
\* an entry for every malformed step of the path, in path order.
C21_ValidateListsAll ==
    last.op = "Validate" =>
        LET bad == SelectSeq(last.steps, Malformed)
        IN /\ (last.status = "ok") = (bad = <<>>)
           /\ bad = <<>> => last.err = NoErr
           /\ bad # <<>> =>
                 /\ last.status = "error"
                 /\ last.err.msg = "invalid path: %s"
                 /\ last.err.arg = EntriesUpTo(bad, Len(bad))

\* a Validate of a path whose two steps are malformed in different ways
C21_Witness ==
    /\ last.op = "Validate"
    /\ Len(last.steps) = 2
    /\ Malformed(last.steps[1])
    /\ Malformed(last.steps[2])
    /\ last.steps[1].t # last.steps[2].t
    /\ last.status = "error"

NodeSetters == {SetterOf[f] : f \in CommentFields}
KeySetters == {KeyOp[SetterOf[f]] : f \in CommentFields}
\* the comment field a setter is about
SetField(op) == CHOOSE f \in CommentFields : op \in {SetterOf[f], KeyOp[SetterOf[f]]}
\* the last call, a comment setter, changed the one comment of its receiver
\* and nothing else
OnlyThatComment ==
    /\ Len(heap) = Len(pre)
    /\ heap[last.recv] = [pre[last.recv] EXCEPT ![SetField(last.op)] = last.text]
    /\ \A id \in 1..Len(pre) : id # last.recv => heap[id] = pre[id]

\* C22: GetKey reports found exactly when the node the steps before the
\* final one lead to exists, is a mapping and has a key whose text is the
\* final step, and then gives that entry's key node.  A comment set through
\* that view changes the key node's comment only and leaves the value
\* paired with it as it was; a comment set through the wrapper Get returns
\* for the same steps changes the value node's comment only.
C22_GetKeyView ==
    /\ last.op = "GetKey" =>
          LET parent == IF Len(last.steps) = 0 THEN 0
                        ELSE Resolve(pre, last.recv, ParentSteps)
              hit == /\ parent # 0
                     /\ pre[parent].Kind = "Mapping"
                     /\ FinalStep.t = "string"
                     /\ MatchingKeys(pre, parent, FinalStep.s) # {}
          IN /\ last.status = "ok"
             /\ last.found = hit
             /\ hit => last.node =
                   pre[parent].Content[Min(MatchingKeys(pre, parent, FinalStep.s)) + 1]
    /\ last.op \in KeySetters =>
          /\ OnlyThatComment
          /\ \A n \in Wrappable(pre), steps \in Paths :
                (GetKey(pre, n, steps).found /\ GetKey(pre, n, steps).node = last.recv) =>
                    LET v == get(pre, n, steps)
                    IN v.found /\ v.node # last.recv /\ heap[v.node] = pre[v.node]
    /\ last.op \in NodeSetters =>
          /\ OnlyThatComment
          /\ \A n \in Wrappable(pre), steps \in Paths :
                (get(pre, n, steps).found /\ get(pre, n, steps).node = last.recv) =>
                    LET k == GetKey(pre, n, steps)
                    IN k.found => (k.node # last.recv /\ heap[k.node] = pre[k.node])

\* a ReplaceAt with a path that validates and a value that can be turned
\* into a node
ReplaceAtCall ==
    /\ last.op = "ReplaceAt"
    /\ last.value.t # "func"
    /\ Len(last.steps) >= 1
    /\ \A k \in 1..Len(last.steps) : ~Malformed(last.steps[k])
\* the node the steps before the j-th lead to, before the call
NodeAt(j) == Resolve(pre, last.recv, SubSeq(last.steps, 1, j - 1))
\* the j-th step cannot descend into that node because of its kind
CannotDescend(j) ==
    /\ NodeAt(j) # 0
    /\ \/ last.steps[j].t = "string" /\ pre[NodeAt(j)].Kind # "Mapping"
       \/ last.steps[j].t = "int" /\ pre[NodeAt(j)].Kind # "Sequence"
\* the node is now the container fitting the j-th step, with nothing of what
\* it held or was decorated with, and holds only what the path put there
Coerced(j) ==
    LET n == NodeAt(j)
        c == heap[n].Content
    IN /\ last.steps[j].t = "string" =>
             /\ [heap[n] EXCEPT !.Content = <<>>] = mappingNode
             /\ Len(c) = 2
             /\ heap[c[1]] = stringNode(last.steps[j].s)
       /\ last.steps[j].t = "int" =>
             /\ [heap[n] EXCEPT !.Content = <<>>] = sequenceNode
             /\ Len(c) = last.steps[j].i + 1
             /\ \A k \in 1..last.steps[j].i : heap[c[k]] = nullNode
       /\ \A k \in 1..Len(c) : c[k] > Len(pre)
\* the write went through: the steps lead to the new value
WriteSucceeded ==
    /\ last.status = "ok"
    /\ Resolve(heap, last.recv, last.steps) = last.node
    /\ last.node # 0
    /\ TermOf(heap, last.node) = Encode(last.value)

\* C23, as stated: under ReplaceAt, whenever a step at any position of the
\* path cannot descend into the current node because of its kind, that node
\* is overwritten in place by an empty container matching the step's type
\* and the write succeeds.
C23_Original ==
    ReplaceAtCall =>
        \A j \in 1..Len(last.steps) :
            CannotDescend(j) => Coerced(j) /\ WriteSucceeded

\* C23, amended: under ReplaceAt, whenever a step that is not the last of
\* the path cannot descend into the current node because of its kind, that
\* node is overwritten in place by an empty container matching the step's
\* type, its prior contents are discarded and the write succeeds; when the
\* last step cannot descend, ReplaceAt fails and the node stays as it was.
C23_CoerceBeforeLast ==
    ReplaceAtCall =>
        \A j \in 1..Len(last.steps) :
            CannotDescend(j) =>
                IF j < Len(last.steps) THEN Coerced(j) /\ WriteSucceeded
                ELSE /\ last.status = "error"
                     /\ \A id \in 1..Len(pre) : heap[id] = pre[id]

\* a ReplaceAt of two steps whose first, a string, met a sequence that held
\* elements
C23_Witness ==
    /\ ReplaceAtCall
    /\ Len(last.steps) = 2
    /\ last.steps[1].t = "string"
    /\ pre[last.recv].Kind = "Sequence"
    /\ Len(pre[last.recv].Content) > 0
    /\ last.status = "ok"
    /\ heap[last.recv].Kind = "Mapping"

\* the node the first j steps of the last call lead to after the call
PrefixAfter(j) == Resolve(heap, last.recv, SubSeq(last.steps, 1, j))
\* the kind a node must have for the step to descend into it
KindFor(s) == IF s.t = "string" THEN "Mapping" ELSE "Sequence"
\* node n, made by the call, is the bare container for step s and holds
\* only the entry for s, after null padding in a sequence
HoldsOnly(n, s) ==
    LET c == heap[n].Content
    IN /\ heap[n].Style = ""
       /\ heap[n].Value = ""
       /\ heap[n].HeadComment = "" /\ heap[n].LineComment = "" /\ heap[n].FootComment = ""
       /\ s.t = "string" =>
             /\ heap[n].Tag = "!!map"
             /\ Len(c) = 2
             /\ heap[c[1]].Kind = "Scalar" /\ heap[c[1]].Value = s.s
       /\ s.t = "int" =>
             /\ heap[n].Tag = "!!seq"
             /\ Len(c) = s.i + 1
             /\ \A k \in 1..s.i : IsNullScalar(heap, c[k]) /\ heap[c[k]].Content = <<>>

\* C24: after a successful SetAt or ReplaceAt, the steps before each step
\* but the first lead to a container of the kind that step needs, a mapping
\* for a string and a sequence for an integer; and where the call made that
\* container because the step leading to it was absent, it holds nothing
\* but what the rest of the path put there.
C24_FittingIntermediates ==
    (last.op \in AtOps /\ last.status = "ok") =>
        \A j \in 1..(Len(last.steps) - 1) :
            LET n == PrefixAfter(j)
            IN /\ n # 0
               /\ heap[n].Kind = KindFor(last.steps[j + 1])
               /\ n > Len(pre) => HoldsOnly(n, last.steps[j + 1])

\* a SetAt of two steps that made a sequence under a key the mapping did not
\* hold, to put the value at index 1 of it
C24_Witness ==
    /\ last.op = "SetAt"
    /\ last.status = "ok"
    /\ Len(last.steps) = 2
    /\ last.steps[1].t = "string"
    /\ Resolve(pre, last.recv, <<last.steps[1]>>) = 0
    /\ pre[last.recv].Kind = "Mapping"
    /\ last.steps[2] = IntStep(1)
    /\ PrefixAfter(1) > Len(pre)

\* the number of the step the traversal of the last call fails at: the
\* first whose prefix of the steps leads to no node
FailingStep ==
    Min({k \in 1..Len(last.steps) :
            Resolve(pre, last.recv, SubSeq(last.steps, 1, k)) = 0})
\* the Path the returned TraversalError records
ErrorPath == StepsOf(arrays, paths[Len(paths)])

\* C25: when a traversal fails at the k-th step of the path asked for, the
\* error returned records the steps from the first to the k-th, in order,
\* as a flat path of k steps.
C25_ErrorPath ==
    (last.op = "nodeGet" /\ last.status = "error") =>
        /\ Len(ErrorPath) = FailingStep
        /\ ErrorPath = SubSeq(last.steps, 1, FailingStep)


T27 ==
    (last.op \in {"SetKey", "SetAt", "ReplaceKey", "ReplaceAt"}
       /\ last.status = "error" /\ last.value.t # "func")
    => \A id \in 1..Len(pre) : heap[id] = pre[id]


-----------------------------------------------------------------------------
(* C27: a failed write leaves the tree as it was *)

KeyAtOps == {"SetKey", "SetAt", "ReplaceKey", "ReplaceAt"}

\* the call returned an error for a value createNode can turn into a node
FailedWrite ==
    /\ last.op \in KeyAtOps
    /\ last.status = "error"
    /\ last.value.t # "func"

\* every node there was before the call has the fields and the children it had
TreeAsBefore ==
    /\ \A id \in 1..Len(pre) : heap[id] = pre[id]
    /\ TermOf(heap, DocNode) = TermOf(pre, DocNode)

\* C27: whenever SetKey, SetAt, ReplaceKey or ReplaceAt returns an error for
\* a value that can be turned into a node, every node of the tree is as it was
\* before the call: no padding element, no new intermediate container and no
\* coerced node is left behind
C27_AllOrNothing == FailedWrite => TreeAsBefore

\* a SetAt with two steps failed after the node for its value was created
C27_Witness ==
    /\ FailedWrite
    /\ last.op = "SetAt"
    /\ Len(last.steps) = 2
    /\ Len(heap) > Len(pre)

-----------------------------------------------------------------------------
(* C26: the entries of a mapping stay key/value pairs *)

Mappings(h) == {id \in 1..Len(h) : h[id].Kind = "Mapping"}

\* the <<key, value>> pairs of node ids a mapping of even length holds
PairsOf(h, m) ==
    {<<h[m].Content[2 * j - 1], h[m].Content[2 * j]>> : j \in 1..(Len(h[m].Content) \div 2)}

\* an even number of entries, the even-indexed ones scalar key nodes
PairedEntries(h, m) ==
    /\ Len(h[m].Content) % 2 = 0
    /\ \A kv \in PairsOf(h, m) : h[kv[1]].Kind = "Scalar"

\* the pairs of a mapping after the last call: a pair with a new key node, or
\* a pair the mapping held before the call with the value it had or a new one
PairsMoveTogether(m) ==
    \A kv \in PairsOf(heap, m) :
        \/ kv[1] > Len(pre)
        \/ /\ m <= Len(pre)
           /\ pre[m].Kind = "Mapping"
           /\ \E old \in PairsOf(pre, m) :
                 /\ old[1] = kv[1]
                 /\ (old[2] = kv[2] \/ kv[2] > Len(pre))

\* C26: after every sequence of Set, SetKey, SetAt, Replace, ReplaceKey,
\* ReplaceAt and DeleteKey calls on a well-formed tree, successful or failed,
\* every mapping node holds an even number of entries, every even-indexed
\* entry is a key node and the odd-indexed entry after it is its value: a
\* call adds and removes a key only together with its value
C26_MappingPairs ==
    \A m \in Mappings(heap) : PairedEntries(heap, m) /\ PairsMoveTogether(m)

\* a pair was added to a mapping that had lost a pair in the call before
C26_Witness ==
    /\ last.seq = 2
    /\ last.op \in {"SetKey", "ReplaceKey", "SetAt", "ReplaceAt"}
    /\ last.status = "ok"
    /\ \E m \in Mappings(pre) \cap Mappings(SeqHeap) :
          /\ Len(pre[m].Content) < Len(SeqHeap[m].Content)
          /\ Len(heap[m].Content) > Len(pre[m].Content)

-----------------------------------------------------------------------------
(* C28: an overwritten entry gets a new node, the old node is detached *)

\* the nodes of the tree below node id, id included
RECURSIVE Reach(_, _)
Reach(h, id) ==
    {id} \cup UNION {Reach(h, h[id].Content[j]) : j \in 1..Len(h[id].Content)}

\* the last call wrote a child entry that was there before the call
Overwrote ==
    /\ last.op \in KeyAtOps
    /\ last.status = "ok"
    /\ ~SlotBefore.panic
    /\ SlotBefore.found

\* the slot holds a node made by the call, the wrapper returned is the one of
\* that node, and the node the slot held is as it was and out of the tree
NewNodeInSlot ==
    Overwrote =>
        /\ SlotAfter.found
        /\ SlotAfter.node = last.node
        /\ last.node > Len(pre)
        /\ TermOf(heap, SlotBefore.node) = TermOf(pre, SlotBefore.node)
        /\ SlotBefore.node \notin Reach(heap, last.recv)
        /\ SlotBefore.node \notin Reach(heap, DocNode)

\* a Set or Replace through the wrapper of the node the call before it took
\* out of its slot leaves every node of the document's tree as it is
DetachedSetStep ==
    (/\ Overwrote
     /\ last'.seq = last.seq + 1
     /\ last'.op \in {"Set", "Replace"}
     /\ last'.recv = SlotBefore.node)
    => /\ TermOf(heap', DocNode) = TermOf(heap, DocNode)
       /\ \A id \in Reach(heap, DocNode) : heap'[id] = heap[id]

\* C28: when SetKey, ReplaceKey, SetAt or ReplaceAt overwrites an entry that
\* was there, the slot holds a new node and the call returns the wrapper of
\* that node; the node the slot held before keeps its value and is no longer
\* in the tree, and a Set or Replace made next through a wrapper of that old
\* node changes no node reachable from the root
C28_OverwriteDetaches == []NewNodeInSlot /\ [][DetachedSetStep]_vars

\* the second call was a successful Set or Replace that changed a node held
\* since the start which the first call had taken out of the root mapping,
\* the root mapping keeping as many entries as it had
C28_Witness ==
    /\ last.seq = 2
    /\ last.op \in {"Set", "Replace"}
    /\ last.status = "ok"
    /\ last.recv \in Reach(SeqHeap, DocNode)
    /\ last.recv \notin Reach(pre, DocNode)
    /\ Len(pre[RootNode(pre)].Content) = Len(SeqHeap[RootNode(SeqHeap)].Content)
    /\ heap[last.recv] # pre[last.recv]

-----------------------------------------------------------------------------
(* C29: the keys of a mapping stay pairwise distinct *)

\* the mappings of the document's tree
TreeMappings(h) == Mappings(h) \cap Reach(h, DocNode)

\* the keys of the mapping are scalars with pairwise distinct text
DistinctKeys(h, m) ==
    LET c == h[m].Content
    IN \A i, j \in 1..Len(c) :
          (i % 2 = 1 /\ j % 2 = 1 /\ i # j) =>
              /\ h[c[i]].Kind = "Scalar"
              /\ h[c[i]].Value # h[c[j]].Value

\* the last call was a DeleteKey whose final step names a mapping key
DeletedKey ==
    /\ last.op = "DeleteKey"
    /\ last.status = "ok"
    /\ FinalStep.t = "string"

\* C29: from a tree whose mappings have pairwise distinct scalar keys, with
\* written values whose mappings have distinct keys, every mapping of the tree
\* has pairwise distinct keys after every sequence of SetKey, SetAt,
\* ReplaceKey, ReplaceAt and DeleteKey calls (and of Set and Replace calls as
\* well), and right after a DeleteKey of a key, Get with the same steps from
\* the same node reports not found
C29_DistinctKeys ==
    /\ \A m \in TreeMappings(heap) : DistinctKeys(heap, m)
    /\ DeletedKey => ~SlotAfter.found

\* a DeleteKey took a key that was there out of a mapping which the call
\* before it had written a key into
C29_Witness ==
    /\ DeletedKey
    /\ last.seq = 2
    /\ SlotBefore.found
    /\ ParentBefore \in Mappings(SeqHeap)
    /\ Len(pre[ParentBefore].Content) > Len(SeqHeap[ParentBefore].Content)

====
